---- MODULE Spec2Model ----
(***************************************************************************)
(* Model of the three galaxy-collision visualisation scripts                *)
(*   allstars/visualize_animation.py   (face-on,  X-Y plane)                *)
(*   edge_on/visualize_edge_on.py      (edge-on,  X-Z plane)                *)
(*   tilted_view/visualize_tilted.py   (tilted,   rotate_3d then X-Y)       *)
(* Each script loads every snapshot file, computes one pair of axis limits  *)
(* from the pooled coordinates, writes one PNG per snapshot and then builds *)
(* an animation.  The variable "mode" selects which script runs.            *)
(*                                                                          *)
(* Numbers.  Coordinates in the files are integers.  Every floating-point   *)
(* quantity of the scripts (percentiles, ranges, axis limits) is a rational *)
(* kept as an integer numerator over the common denominator Den, so that    *)
(* q/100 interpolation, the 0.1 padding and the division by 3.0 are exact.  *)
(* Cosines and sines are kept over TrigDen, for angles where both are       *)
(* rational; rotate_3d therefore returns coordinates times TrigDen^2.       *)
(* Rounding of the floating-point operations is not modelled.               *)
(*                                                                          *)
(* Left out: the Masses and StellarFormationTime arrays (loaded, never      *)
(* read), colours, sizes and text placement, and the widening matplotlib    *)
(* applies to an axis whose two limits are equal.                           *)
(*                                                                          *)
(* Library behaviour that depends on the installed version is a choice of   *)
(* the model: np.percentile of an empty list raises IndexError or returns   *)
(* nan; the movie writers work or raise.                                    *)
(***************************************************************************)
EXTENDS Integers, Sequences, FiniteSets

\* ------------------------------------------------------------------ bounds
\* Largest number of snapshot_*.hdf5 files in the output directory.
MaxFiles == 2

\* ------------------------------------------------------- number encoding
Den == 100 * 10 * 3

F(v) == v * Den

Min(a, b) == IF a <= b THEN a ELSE b

\* ----------------------------------------------------------- view modes
Modes == {"face_on", "edge_on", "tilted"}

\* Angles (degrees) whose cosine and sine are rational over TrigDen:
\* 37 stands for atan(3/4) = 36.87 deg and 53 for atan(4/3) = 53.13 deg.
Angles == {0, 37, 53, 90, 180, 270}

\* np.cos(np.radians(a)) * TrigDen
Cos5(a) ==
  CASE a = 0 -> 5
    [] a = 37 -> 4
    [] a = 53 -> 3
    [] a = 90 -> 0
    [] a = 180 -> -5
    [] a = 270 -> 0

\* np.sin(np.radians(a)) * TrigDen
Sin5(a) ==
  CASE a = 0 -> 0
    [] a = 37 -> 3
    [] a = 53 -> 4
    [] a = 90 -> 5
    [] a = 180 -> 0
    [] a = 270 -> -5

\* The denominator of the cosines and sines: cos(0) = 1 is kept as TrigDen.
TrigDen == Cos5(0)

\* Mutant: cosine and sine exchanged in the X rotation.
Rx_swapped(angle_x) ==
  << << TrigDen, 0, 0 >>,
     << 0, Sin5(angle_x), -Cos5(angle_x) >>,
     << 0, Cos5(angle_x), Sin5(angle_x) >> >>

\* Rotation matrix around X axis (times TrigDen), rows as in the source.
Rx(angle_x) ==
  << << TrigDen, 0, 0 >>,
     << 0, Cos5(angle_x), -Sin5(angle_x) >>,
     << 0, Sin5(angle_x), Cos5(angle_x) >> >>

\* Rotation matrix around Z axis (times TrigDen).
Rz(angle_z) ==
  << << Cos5(angle_z), -Sin5(angle_z), 0 >>,
     << Sin5(angle_z), Cos5(angle_z), 0 >>,
     << 0, 0, TrigDen >> >>

\* M.T
Transpose(M) == [i \in 1..3 |-> [j \in 1..3 |-> M[j][i]]]

\* One row of  pos @ M : the row vector p times the matrix M.
RowTimes(p, M) == [j \in 1..3 |-> p[1] * M[1][j] + p[2] * M[2][j] + p[3] * M[3][j]]

\* Mutant: the Z rotation is left out.
rotate_3d_x_only(pos, angle_x, angle_z) ==
  [k \in 1..Len(pos) |->
     RowTimes(RowTimes(pos[k], Transpose(Rx(angle_x))), Transpose(Rx(0)))]

\* Mutant: the Z rotation is applied before the X rotation.
rotate_3d_z_first(pos, angle_x, angle_z) ==
  [k \in 1..Len(pos) |->
     RowTimes(RowTimes(pos[k], Transpose(Rz(angle_z))), Transpose(Rx(angle_x)))]

\* rotated = pos @ Rx.T @ Rz.T   (numpy evaluates @ left to right)
rotate_3d(pos, angle_x, angle_z) ==
  [k \in 1..Len(pos) |->
     RowTimes(RowTimes(pos[k], Transpose(Rx(angle_x))), Transpose(Rz(angle_z)))]

\* ------------------------------------------------------------ input files
PartTypes == {"PartType2", "PartType3", "PartType4"}

\* Particle positions found in the files.
DiskPts == << << -3, 1, 0 >>, << 3, -1, 1 >> >>
BulgePts == << << 1, 4, -2 >> >>
NewPts == << << 2, -5, 9 >> >>

Times == {0, 1}

\* An HDF5 snapshot file: the attributes of its Header group, the particle
\* groups it contains and the Coordinates dataset of each group.
MkFile(attrs, t, groups, c2, c3, c4) ==
  [attrs |-> attrs, Time |-> t, groups |-> groups,
   PartType2 |-> c2, PartType3 |-> c3, PartType4 |-> c4]

\* A file whose Header has no Time attribute.
NoTimeFile == MkFile({}, 0, {"PartType2"}, DiskPts, << >>, << >>)

\* The particle content of a file: the Coordinates of PartType2 and PartType3
\* (a group without particles is not written) and PartType4, which is absent
\* (has4 false), present without particles, or present with particles.
Contents ==
  { << << >>, << >>, FALSE, << >> >>,
    << DiskPts, << >>, FALSE, << >> >>,
    << DiskPts, BulgePts, TRUE, << >> >>,
    << DiskPts, BulgePts, TRUE, NewPts >>,
    << << >>, BulgePts, TRUE, NewPts >>,
    << << >>, << >>, TRUE, NewPts >> }

GroupsOf(c) ==
  (IF c[1] # << >> THEN {"PartType2"} ELSE {}) \cup
  (IF c[2] # << >> THEN {"PartType3"} ELSE {}) \cup
  (IF c[3] THEN {"PartType4"} ELSE {})

SnapshotFiles ==
  {NoTimeFile} \cup
  { MkFile({"Time"}, t, GroupsOf(c), c[1], c[2], c[4]) : t \in Times, c \in Contents }

\* sorted(glob.glob(...)): the files in lexicographic order of their names;
\* element k is the file with the k-th name.
FileLists == UNION { [1..n -> SnapshotFiles] : n \in 0..MaxFiles }

\* ------------------------------------------------------------------ state
VARIABLES
  mode,        \* which script runs
  angle_x,     \* tilted view: rotation around X (degrees)
  angle_z,     \* tilted view: rotation around Z (degrees)
  entry,       \* "__main__" (script run) or "create_animation" (called alone)
  dir_exists,  \* os.path.exists of the output directory
  files,       \* sorted snapshot files of the output directory
  pc,          \* position in the script
  snapshots,   \* the list of loaded snapshots of the running function
  xlim,        \* axis limits of the running function: <<lo, hi>> or NaN
  ylim,        \* (zlim in the edge-on script)
  i,           \* loop index of the frame loop (1-based)
  frames,      \* PNG files written by create_static_frames, in order
  fig,         \* the animation figure: axis limits and the four artists
  writer,      \* movie writer in use: "none", "ffmpeg" or "pillow"
  movie,       \* frames grabbed by the writer in use
  video,       \* the saved animation: "none", "mp4" or "gif"
  raised,      \* exception raised so far ("none" when there is none)
  exit,        \* "running", "returned", "sys_exit_1" or "raised"
  log          \* messages printed (the ones that tell the outcome)

inputs == << mode, angle_x, angle_z, entry, dir_exists, files >>
vars == << mode, angle_x, angle_z, entry, dir_exists, files, pc, snapshots,
           xlim, ylim, i, frames, fig, writer, movie, video, raised, exit, log >>

\* A limit pair whose entries are nan.
NaN == << >>

NoFig == [xlim |-> NaN, ylim |-> NaN, old_stars |-> << >>, new_stars |-> << >>,
          time_text |-> << >>, count_text |-> << >>, open |-> FALSE]

\* ---------------------------------------------------------- load_snapshot
\* Mutant: a missing Time attribute is read as a default value.
HasTime_default(f) == TRUE

\* f['Header'].attrs['Time'] finds the attribute.
HasTime(f) == "Time" \in f.attrs

\* Mutant: the bulge group is read into disk_pos and the disk group into
\* bulge_pos.
load_snapshot_swapped(f) ==
  [newstars_pos |-> IF "PartType4" \in f.groups THEN f.PartType4 ELSE << >>,
   disk_pos |-> IF "PartType3" \in f.groups THEN f.PartType3 ELSE << >>,
   bulge_pos |-> IF "PartType2" \in f.groups THEN f.PartType2 ELSE << >>,
   time |-> f.Time]

\* The dict returned by load_snapshot for a file that has the Time attribute;
\* np.array([]).reshape(0, 3) is the empty sequence of points.
load_snapshot(f) ==
  [newstars_pos |-> IF "PartType4" \in f.groups THEN f.PartType4 ELSE << >>,
   disk_pos |-> IF "PartType2" \in f.groups THEN f.PartType2 ELSE << >>,
   bulge_pos |-> IF "PartType3" \in f.groups THEN f.PartType3 ELSE << >>,
   time |-> f.Time]

\* [load_snapshot(f) for f in snapshot_files], when no file raises.
\* Mutant: the file list is walked from its last name to its first.
load_all_reversed(fs) == [k \in 1..Len(fs) |-> load_snapshot(fs[Len(fs) + 1 - k])]

load_all(fs) == [k \in 1..Len(fs) |-> load_snapshot(fs[k])]

\* The files load_snapshot raises KeyError for.
bad_files(fs) == {k \in 1..Len(fs) : ~HasTime(fs[k])}

\* The position of the first of them.
first_bad(fs) == CHOOSE k \in bad_files(fs) : \A j \in bad_files(fs) : k <= j

\* ------------------------------------------------------ coordinate limits
\* pos[:, c-1] : one column of an N x 3 (or N x 2) array.
Column(pos, c) == [k \in 1..Len(pos) |-> pos[k][c]]

\* The second plotted axis: Y (column 1) face-on and tilted, Z (column 2) edge-on.
VCol == IF mode = "edge_on" THEN 3 ELSE 2

\* Mutant: a snapshot without new stars adds the origin to the pool.
snap_coords_zero_fill(snap, c) ==
  IF mode = "tilted"
  THEN LET all_pos == snap.disk_pos \o snap.bulge_pos \o
                      (IF Len(snap.newstars_pos) > 0 THEN snap.newstars_pos
                       ELSE << << 0, 0, 0 >> >>)
       IN  Column(rotate_3d(all_pos, angle_x, angle_z), c)
  ELSE (IF Len(snap.newstars_pos) > 0 THEN Column(snap.newstars_pos, c) ELSE << 0 >>) \o
       Column(snap.disk_pos, c) \o Column(snap.bulge_pos, c)

\* Mutant: the bulge is left out of the pool.
snap_coords_no_bulge(snap, c) ==
  IF mode = "tilted"
  THEN LET all_pos == snap.disk_pos \o
                      (IF Len(snap.newstars_pos) > 0 THEN snap.newstars_pos ELSE << >>)
       IN  Column(rotate_3d(all_pos, angle_x, angle_z), c)
  ELSE (IF Len(snap.newstars_pos) > 0 THEN Column(snap.newstars_pos, c) ELSE << >>) \o
       Column(snap.disk_pos, c)

\* What one pass of the "for snap in snapshots" loop appends to all_x (c = 1)
\* or to all_y / all_z (c = VCol).
\*   face-on, edge-on: new stars only if there are any, then disk, then bulge;
\*   tilted: vstack of disk, bulge and (if any) new stars, rotated.
snap_coords(snap, c) ==
  IF mode = "tilted"
  THEN LET all_pos == snap.disk_pos \o snap.bulge_pos \o
                      (IF Len(snap.newstars_pos) > 0 THEN snap.newstars_pos ELSE << >>)
       IN  Column(rotate_3d(all_pos, angle_x, angle_z), c)
  ELSE (IF Len(snap.newstars_pos) > 0 THEN Column(snap.newstars_pos, c) ELSE << >>) \o
       Column(snap.disk_pos, c) \o Column(snap.bulge_pos, c)

\* all_x / all_y after the loop over all snapshots.
RECURSIVE pool(_, _)
pool(snaps, c) ==
  IF snaps = << >> THEN << >>
  ELSE snap_coords(Head(snaps), c) \o pool(Tail(snaps), c)

\* Insert v into the ascending sequence s.
RECURSIVE Insert(_, _)
Insert(s, v) ==
  IF s = << >> THEN << v >>
  ELSE IF v <= Head(s) THEN << v >> \o s
  ELSE << Head(s) >> \o Insert(Tail(s), v)

\* The values of a in ascending order.
RECURSIVE Sorted(_)
Sorted(a) == IF a = << >> THEN << >> ELSE Insert(Sorted(Tail(a)), Head(a))

\* Mutant: the list is not sorted before the virtual index is taken.
percentile_unsorted(a, q) ==
  LET n == Len(a)
      pos == q * (n - 1)
      lo == a[(pos \div 100) + 1]
      hi == a[Min((pos \div 100) + 2, n)]
  IN  F(lo) + ((pos % 100) * (F(hi) - F(lo))) \div 100

\* np.percentile(a, q) for a non-empty list a, default (linear) method: on the
\* sorted data, the value at the virtual index q/100 * (n-1), interpolated
\* between its two neighbours.  The result is over Den.
percentile(a, q) ==
  LET n == Len(a)
      srt == Sorted(a)
      pos == q * (n - 1)
      lo == srt[(pos \div 100) + 1]
      hi == srt[Min((pos \div 100) + 2, n)]
  IN  F(lo) + ((pos % 100) * (F(hi) - F(lo))) \div 100

\* Mutant: the padding is applied inwards.
pad_inwards(lim) ==
  LET range == lim[2] - lim[1]
  IN  << lim[1] + range \div 10, lim[2] - range \div 10 >>

\* lim = [lim[0] - 0.1*range, lim[1] + 0.1*range]  with range = lim[1] - lim[0]
pad(lim) ==
  LET range == lim[2] - lim[1]
  IN  << lim[1] - range \div 10, lim[2] + range \div 10 >>

\* z_max = (xlim[1] - xlim[0]) / 3.0 ; zlim = [-z_max, z_max]
thin_axis(xl) ==
  LET z_max == (xl[2] - xl[1]) \div 3
  IN  << -z_max, z_max >>

\* Mutant: the tilted script applies the edge-on override as well.
limits_thin_tilted(all_x, all_y) ==
  LET xl == pad(<< percentile(all_x, 1), percentile(all_x, 99) >>)
      yl == << percentile(all_y, 1), percentile(all_y, 99) >>
  IN  [xlim |-> xl,
       ylim |-> IF mode \in {"edge_on", "tilted"} THEN thin_axis(xl) ELSE pad(yl)]

\* Mutant: the edge-on script keeps the padded percentile range of Z.
limits_no_override(all_x, all_y) ==
  [xlim |-> pad(<< percentile(all_x, 1), percentile(all_x, 99) >>),
   ylim |-> pad(<< percentile(all_y, 1), percentile(all_y, 99) >>)]

\* The limits the scripts compute from non-empty all_x and all_y (all_z).
limits(all_x, all_y) ==
  LET xl == pad(<< percentile(all_x, 1), percentile(all_x, 99) >>)
      yl == << percentile(all_y, 1), percentile(all_y, 99) >>
  IN  [xlim |-> xl,
       ylim |-> IF mode = "edge_on" THEN thin_axis(xl) ELSE pad(yl)]

\* The limits computed from the snapshots (non-empty pool).
bounds(snaps) == limits(pool(snaps, 1), pool(snaps, VCol))

\* What np.percentile does with an empty list depends on the numpy version:
\* it raises IndexError, or it returns nan (with a warning).
EmptyOutcomes == {"IndexError", "nan"}

\* --------------------------------------------------------------- drawing
\* The 2D points plotted for an N x 3 array.
\*   face-on: pos[:, :2]   edge-on: pos[:, [0, 2]]   tilted: rotate_3d(pos)[:, :2]
project(pos) ==
  LET p3 == IF mode = "tilted" THEN rotate_3d(pos, angle_x, angle_z) ELSE pos
  IN  [k \in 1..Len(p3) |-> << p3[k][1], p3[k][VCol] >>]

\* plt.subplots / ax.set_xlim / ax.set_ylim raise ValueError: the limits are
\* nan, or (edge-on) the figure width 8 * x_range / z_range is nan because
\* z_range is zero.
figure_fails(xl, yl) ==
  \/ xl = NaN
  \/ yl = NaN
  \/ mode = "edge_on" /\ yl[2] - yl[1] = 0

\* Mutant: every frame is scaled to its own snapshot.
set_lims_per_frame(k) ==
  IF pool(<< snapshots[k] >>, 1) = << >> THEN << xlim, ylim >>
  ELSE << bounds(<< snapshots[k] >>).xlim, bounds(<< snapshots[k] >>).ylim >>

\* The limits ax.set_xlim(xlim) and ax.set_ylim(ylim) give frame k.
set_lims(k) == << xlim, ylim >>

\* One PNG written by the frame loop of create_static_frames for snapshot k.
static_frame(k) ==
  LET snap == snapshots[k]
  IN  [index |-> k - 1,
       xlim |-> set_lims(k)[1],
       ylim |-> set_lims(k)[2],
       old |-> project(snap.disk_pos \o snap.bulge_pos),
       new |-> IF Len(snap.newstars_pos) > 0 THEN project(snap.newstars_pos) ELSE << >>,
       time |-> snap.time,
       count |-> Len(snap.newstars_pos)]

\* init(): the artists are emptied.
init(f) ==
  [f EXCEPT !.old_stars = << >>, !.new_stars = << >>,
            !.time_text = << >>, !.count_text = << >>]

\* animate(frame): the artists show snapshot k = frame + 1.
\* Mutant: animate without its else branch: a snapshot without new stars
\* leaves the new-star artist as the frame before set it.
animate_keep_new(f, k) ==
  LET snap == snapshots[k]
  IN  [f EXCEPT !.old_stars = project(snap.disk_pos \o snap.bulge_pos),
                !.new_stars = IF Len(snap.newstars_pos) > 0
                              THEN project(snap.newstars_pos) ELSE f.new_stars,
                !.time_text = << snap.time >>,
                !.count_text = << Len(snap.newstars_pos) >>]

animate(f, k) ==
  LET snap == snapshots[k]
  IN  [f EXCEPT !.old_stars = project(snap.disk_pos \o snap.bulge_pos),
                !.new_stars = IF Len(snap.newstars_pos) > 0
                              THEN project(snap.newstars_pos) ELSE << >>,
                !.time_text = << snap.time >>,
                !.count_text = << Len(snap.newstars_pos) >>]

\* writer.grab_frame(): the picture of the figure as it is drawn.
grab(f, k) ==
  [index |-> k - 1, xlim |-> f.xlim, ylim |-> f.ylim, old |-> f.old_stars,
   new |-> f.new_stars, time |-> f.time_text, count |-> f.count_text]

\* ------------------------------------------------------------------- Init
\* The (angle_x, angle_z) pairs the tilted script is run with.
TiltViews == { << 37, 53 >> }

Entries == {"__main__", "create_animation"}

\* The state in which a run starts.
InitRun ==
  /\ pc = "start"
  /\ snapshots = << >>
  /\ xlim = NaN
  /\ ylim = NaN
  /\ i = 0
  /\ frames = << >>
  /\ fig = NoFig
  /\ writer = "none"
  /\ movie = << >>
  /\ video = "none"
  /\ raised = "none"
  /\ exit = "running"
  /\ log = << >>

Init ==
  /\ mode \in Modes
  /\ \E v \in (IF mode = "tilted" THEN TiltViews ELSE { << 0, 0 >> }) :
       /\ angle_x = v[1]
       /\ angle_z = v[2]
  /\ entry \in Entries
  /\ dir_exists \in BOOLEAN
  /\ files \in (IF dir_exists THEN FileLists ELSE { << >> })
  /\ InitRun

\* The tilted script with every pair of angles, on at most one file.
InitRotate ==
  /\ mode = "tilted"
  /\ angle_x \in Angles
  /\ angle_z \in Angles
  /\ entry \in Entries
  /\ dir_exists \in BOOLEAN
  /\ files \in (IF dir_exists
                THEN { << >> } \cup { << f >> : f \in SnapshotFiles }
                ELSE { << >> })
  /\ InitRun

\* -------------------------------------------------------------- __main__
\* The script body up to the call of create_static_frames: without the
\* output directory it prints an error and calls sys.exit(1).
Main ==
  /\ pc = "start"
  /\ entry = "__main__"
  /\ IF dir_exists
     THEN /\ pc' = "static_load"
          /\ UNCHANGED << exit, log >>
     ELSE /\ pc' = "exited"
          /\ exit' = "sys_exit_1"
          /\ log' = Append(log, "output directory not found")
  /\ UNCHANGED << inputs, snapshots, xlim, ylim, i, frames, fig, writer, movie,
                  video, raised >>

\* create_animation called on its own.
CallAnimation ==
  /\ pc = "start"
  /\ entry = "create_animation"
  /\ pc' = "anim_glob"
  /\ UNCHANGED << inputs, snapshots, xlim, ylim, i, frames, fig, writer, movie,
                  video, raised, exit, log >>

\* --------------------------------------------------- create_static_frames
\* snapshots = [load_snapshot(f) for f in snapshot_files]: f['Header'].attrs['Time']
\* raises KeyError for a file without the attribute; __main__ does not catch it.
StaticLoad ==
  /\ pc = "static_load"
  /\ IF bad_files(files) # {}
     THEN /\ pc' = "exited"
          /\ raised' = "KeyError"
          /\ exit' = "raised"
          /\ UNCHANGED snapshots
     ELSE /\ pc' = "static_bounds"
          /\ snapshots' = load_all(files)
          /\ UNCHANGED << raised, exit >>
  /\ UNCHANGED << inputs, xlim, ylim, i, frames, fig, writer, movie, video, log >>

\* The pooling loop, the percentiles and the padding, for a non-empty pool.
StaticBounds ==
  /\ pc = "static_bounds"
  /\ pool(snapshots, 1) # << >>
  /\ xlim' = bounds(snapshots).xlim
  /\ ylim' = bounds(snapshots).ylim
  /\ pc' = "static_render"
  /\ i' = 1
  /\ UNCHANGED << inputs, snapshots, frames, fig, writer, movie, video, raised,
                  exit, log >>

\* The same with an empty pool: np.percentile raises, or the limits are nan.
StaticBoundsEmpty ==
  /\ pc = "static_bounds"
  /\ pool(snapshots, 1) = << >>
  /\ \E outcome \in EmptyOutcomes :
       IF outcome = "IndexError"
       THEN /\ pc' = "exited"
            /\ raised' = "IndexError"
            /\ exit' = "raised"
            /\ UNCHANGED << xlim, ylim, i >>
       ELSE /\ pc' = "static_render"
            /\ xlim' = NaN
            /\ ylim' = NaN
            /\ i' = 1
            /\ UNCHANGED << raised, exit >>
  /\ UNCHANGED << inputs, snapshots, frames, fig, writer, movie, video, log >>

\* One pass of the frame loop: a new figure with the limits, the scatter
\* plots and the texts of snapshot i, saved as frame_{i-1:03d}.png.
StaticRenderFrame ==
  /\ pc = "static_render"
  /\ i <= Len(snapshots)
  /\ IF figure_fails(xlim, ylim)
     THEN /\ pc' = "exited"
          /\ raised' = "ValueError"
          /\ exit' = "raised"
          /\ UNCHANGED << i, frames >>
     ELSE /\ frames' = Append(frames, static_frame(i))
          /\ i' = i + 1
          /\ UNCHANGED << pc, raised, exit >>
  /\ UNCHANGED << inputs, snapshots, xlim, ylim, fig, writer, movie, video, log >>

\* The loop is over: create_static_frames returns and __main__ goes on to
\* create_animation inside its try block.
StaticReturn ==
  /\ pc = "static_render"
  /\ i > Len(snapshots)
  /\ pc' = "anim_glob"
  /\ log' = Append(log, "All frames saved")
  /\ UNCHANGED << inputs, snapshots, xlim, ylim, i, frames, fig, writer, movie,
                  video, raised, exit >>

\* ------------------------------------------------------- create_animation
\* An exception leaves create_animation: under __main__ the except clause
\* prints it and the script ends normally; a direct caller gets the exception.
AnimRaise(exc) ==
  /\ raised' = exc
  /\ pc' = "exited"
  /\ IF entry = "__main__"
     THEN /\ exit' = "returned"
          /\ log' = Append(log, "Animation creation failed")
     ELSE /\ exit' = "raised"
          /\ UNCHANGED log

\* The glob: without snapshot files the function prints a message and returns.
AnimGlob ==
  /\ pc = "anim_glob"
  /\ IF files = << >>
     THEN /\ pc' = "exited"
          /\ exit' = "returned"
          /\ log' = Append(log, "No snapshots found")
     ELSE /\ pc' = "anim_load"
          /\ UNCHANGED << exit, log >>
  /\ UNCHANGED << inputs, snapshots, xlim, ylim, i, frames, fig, writer, movie,
                  video, raised >>

\* The loading loop: snapshots.append(load_snapshot(sfile)) for every file,
\* up to the first file that raises.
AnimLoad ==
  /\ pc = "anim_load"
  /\ IF bad_files(files) # {}
     THEN /\ AnimRaise("KeyError")
          /\ snapshots' = load_all(SubSeq(files, 1, first_bad(files) - 1))
     ELSE /\ pc' = "anim_bounds"
          /\ snapshots' = load_all(files)
          /\ UNCHANGED << raised, exit, log >>
  /\ UNCHANGED << inputs, xlim, ylim, i, frames, fig, writer, movie, video >>

\* The pooling loop, the percentiles and the padding, for a non-empty pool.
AnimBounds ==
  /\ pc = "anim_bounds"
  /\ pool(snapshots, 1) # << >>
  /\ xlim' = bounds(snapshots).xlim
  /\ ylim' = bounds(snapshots).ylim
  /\ pc' = "anim_figure"
  /\ UNCHANGED << inputs, snapshots, i, frames, fig, writer, movie, video, raised,
                  exit, log >>

\* The same with an empty pool.
AnimBoundsEmpty ==
  /\ pc = "anim_bounds"
  /\ pool(snapshots, 1) = << >>
  /\ \E outcome \in EmptyOutcomes :
       IF outcome = "IndexError"
       THEN /\ AnimRaise("IndexError")
            /\ UNCHANGED << xlim, ylim >>
       ELSE /\ pc' = "anim_figure"
            /\ xlim' = NaN
            /\ ylim' = NaN
            /\ UNCHANGED << raised, exit, log >>
  /\ UNCHANGED << inputs, snapshots, i, frames, fig, writer, movie, video >>

\* The figure: the axis limits are set once, the two scatter plots and the
\* two texts are created empty, and FuncAnimation is built.
AnimFigure ==
  /\ pc = "anim_figure"
  /\ IF figure_fails(xlim, ylim)
     THEN /\ AnimRaise("ValueError")
          /\ UNCHANGED fig
     ELSE /\ fig' = [xlim |-> xlim, ylim |-> ylim, old_stars |-> << >>,
                     new_stars |-> << >>, time_text |-> << >>,
                     count_text |-> << >>, open |-> TRUE]
          /\ pc' = "anim_save"
          /\ UNCHANGED << raised, exit, log >>
  /\ UNCHANGED << inputs, snapshots, xlim, ylim, i, frames, writer, movie, video >>

\* Mutant: the first save without its try/except: a failure to set up the
\* ffmpeg writer leaves create_animation.
AnimSaveMp4_no_fallback ==
  /\ pc = "anim_save"
  /\ \E ok \in BOOLEAN :
       IF ok
       THEN /\ writer' = "ffmpeg"
            /\ fig' = init(fig)
            /\ i' = 1
            /\ pc' = "anim_frames"
            /\ UNCHANGED << raised, exit, log >>
       ELSE /\ AnimRaise("Exception")
            /\ UNCHANGED << writer, fig, i >>
  /\ UNCHANGED << inputs, snapshots, xlim, ylim, frames, movie, video >>

\* anim.save(save_file, writer='ffmpeg', ...): the writer is set up and init()
\* is drawn, or the save raises (ffmpeg is not installed) and the except
\* clause turns to the GIF.
AnimSaveMp4 ==
  /\ pc = "anim_save"
  /\ \E ok \in BOOLEAN :
       IF ok
       THEN /\ writer' = "ffmpeg"
            /\ fig' = init(fig)
            /\ i' = 1
            /\ pc' = "anim_frames"
            /\ UNCHANGED log
       ELSE /\ pc' = "anim_gif"
            /\ log' = Append(log, "Could not save MP4")
            /\ UNCHANGED << writer, fig, i >>
  /\ UNCHANGED << inputs, snapshots, xlim, ylim, frames, movie, video, raised, exit >>

\* anim.save(gif_file, writer='pillow', fps=fps) in the except clause: it
\* starts like the first save, or raises out of create_animation.
AnimSaveGif ==
  /\ pc = "anim_gif"
  /\ \E ok \in BOOLEAN :
       IF ok
       THEN /\ writer' = "pillow"
            /\ fig' = init(fig)
            /\ i' = 1
            /\ pc' = "anim_frames"
            /\ UNCHANGED << raised, exit, log >>
       ELSE /\ AnimRaise("Exception")
            /\ UNCHANGED << writer, fig, i >>
  /\ UNCHANGED << inputs, snapshots, xlim, ylim, frames, movie, video >>

\* The save draws frame i-1: animate(i-1), then the writer grabs the figure.
AnimDrawFrame ==
  /\ pc = "anim_frames"
  /\ i <= Len(snapshots)
  /\ fig' = animate(fig, i)
  /\ movie' = Append(movie, grab(animate(fig, i), i))
  /\ i' = i + 1
  /\ UNCHANGED << inputs, pc, snapshots, xlim, ylim, frames, writer, video, raised,
                  exit, log >>

\* The running save raises while frames are being piped to the writer (the
\* encoder process dies, the codec is missing, the disk is full): from the
\* ffmpeg save control passes to the except clause and the GIF, the frames
\* piped so far being discarded; from the GIF save the exception leaves
\* create_animation.
AnimSaveBreaks ==
  /\ pc = "anim_frames"
  /\ IF writer = "ffmpeg"
     THEN /\ pc' = "anim_gif"
          /\ writer' = "none"
          /\ movie' = << >>
          /\ log' = Append(log, "Could not save MP4")
          /\ UNCHANGED << raised, exit >>
     ELSE /\ AnimRaise("Exception")
          /\ UNCHANGED << writer, movie >>
  /\ UNCHANGED << inputs, snapshots, xlim, ylim, i, frames, fig, video >>

\* All frames are drawn: the file is written, plt.close(), "Done!".
AnimFinish ==
  /\ pc = "anim_frames"
  /\ i > Len(snapshots)
  /\ video' = IF writer = "ffmpeg" THEN "mp4" ELSE "gif"
  /\ fig' = [fig EXCEPT !.open = FALSE]
  /\ log' = Append(log, "Done!")
  /\ pc' = "exited"
  /\ exit' = "returned"
  /\ UNCHANGED << inputs, snapshots, xlim, ylim, i, frames, writer, movie, raised >>

\* ------------------------------------------------------------------- Next
Next ==
  \/ Main
  \/ CallAnimation
  \/ StaticLoad
  \/ StaticBounds
  \/ StaticBoundsEmpty
  \/ StaticRenderFrame
  \/ StaticReturn
  \/ AnimGlob
  \/ AnimLoad
  \/ AnimBounds
  \/ AnimBoundsEmpty
  \/ AnimFigure
  \/ AnimSaveMp4
  \/ AnimSaveGif
  \/ AnimDrawFrame
  \/ AnimSaveBreaks
  \/ AnimFinish

Spec == Init /\ [][Next]_vars

SpecRotate == InitRotate /\ [][Next]_vars

\* ------------------------------------------------- the repeating animation
\* FuncAnimation(fig, animate, init_func=init, frames=len(snapshots),
\* repeat=True) hands the two callbacks to the figure's event source: besides
\* the frames the save asks for one after the other, the animation may be
\* drawn by a redraw (init) or by a step of the repeating sequence
\* (animate(k) for any k) while the figure is open.
AnimationLive == fig.open /\ pc \in {"anim_save", "anim_gif", "anim_frames"}

ShowInit ==
  /\ AnimationLive
  /\ fig' = init(fig)
  /\ UNCHANGED << inputs, pc, snapshots, xlim, ylim, i, frames, writer, movie,
                  video, raised, exit, log >>

ShowAnimate ==
  /\ AnimationLive
  /\ \E k \in 1..Len(snapshots) : fig' = animate(fig, k)
  /\ UNCHANGED << inputs, pc, snapshots, xlim, ylim, i, frames, writer, movie,
                  video, raised, exit, log >>

\* create_animation called by itself, with the callbacks in any order.
InitAnimate == Init /\ entry = "create_animation"

NextAnimate ==
  \/ CallAnimation
  \/ AnimGlob
  \/ AnimLoad
  \/ AnimBounds
  \/ AnimBoundsEmpty
  \/ AnimFigure
  \/ AnimSaveMp4
  \/ AnimSaveGif
  \/ AnimDrawFrame
  \/ AnimSaveBreaks
  \/ AnimFinish
  \/ ShowInit
  \/ ShowAnimate

SpecAnimate == InitAnimate /\ [][NextAnimate]_vars

\* ================================================================ claims
\* Reference definitions used by the properties below.  They do not follow
\* the scripts' computation: the pool is taken from the files, the order
\* statistics are found by counting, and the rotation is written for column
\* vectors.

Range(a) == {a[k] : k \in DOMAIN a}

\* The k-th smallest value of the list a (1 <= k <= Len(a)), by counting.
KthSmallest(a, k) ==
  CHOOSE v \in Range(a) :
    /\ Cardinality({j \in DOMAIN a : a[j] < v}) < k
    /\ k <= Cardinality({j \in DOMAIN a : a[j] <= v})

\* 100 times the q-th percentile of the non-empty list a.
RefPercentile100(a, q) ==
  LET n == Len(a)
      k == (q * (n - 1)) \div 100
      r == (q * (n - 1)) % 100
      lo == KthSmallest(a, k + 1)
      hi == KthSmallest(a, Min(k + 2, n))
  IN  100 * lo + r * (hi - lo)

\* 1000 times [lo - 0.1*(hi-lo), hi + 0.1*(hi-lo)] for lo, hi the 1st and 99th
\* percentile of a.
RefPadded1000(a) ==
  LET lo == RefPercentile100(a, 1)
      hi == RefPercentile100(a, 99)
  IN  << 10 * lo - (hi - lo), 10 * hi + (hi - lo) >>

\* A limit pair of the model (over Den) equals a pair given over 1000.
SameLimits(lim, ref1000) ==
  /\ lim # NaN
  /\ 1000 * lim[1] = Den * ref1000[1]
  /\ 1000 * lim[2] = Den * ref1000[2]

\* All positions of one file, all three particle classes.
FilePoints(f) == f.PartType2 \o f.PartType3 \o f.PartType4

\* All positions of all files.
RECURSIVE AllPoints(_)
AllPoints(fs) == IF fs = << >> THEN << >> ELSE FilePoints(Head(fs)) \o AllPoints(Tail(fs))

\* The matrix M times the column vector p.
MatVec(M, p) == [r \in 1..3 |-> M[r][1] * p[1] + M[r][2] * p[2] + M[r][3] * p[3]]

\* Rz(angle_z) . (Rx(angle_x) . p), times TrigDen^2.
RefRotate(p, ax, az) == MatVec(Rz(az), MatVec(Rx(ax), p))

\* The coordinate plotted on the horizontal (axis = 1) or vertical (axis = 2)
\* axis for the point p.
RefProjected(p, axis) ==
  IF mode = "tilted" THEN RefRotate(p, angle_x, angle_z)[axis]
  ELSE IF axis = 1 THEN p[1]
  ELSE IF mode = "edge_on" THEN p[3]
  ELSE p[2]

\* That coordinate for every point of every file.
RefAxis(axis) ==
  LET pts == AllPoints(files)
  IN  [k \in DOMAIN pts |-> RefProjected(pts[k], axis)]

\* The interval lim (over Den) contains the 1st to 99th percentile of a.
ContainsPercentiles(lim, a) ==
  /\ 100 * lim[1] <= Den * RefPercentile100(a, 1)
  /\ Den * RefPercentile100(a, 99) <= 100 * lim[2]

\* The limit pair is [-W/3, W/3] for W the width of xl.
IsThird(yl, xl) == yl[1] = -yl[2] /\ 3 * yl[2] = xl[2] - xl[1]

\* The limits have been computed (from a non-empty pool).
HaveWindow == xlim # NaN /\ ylim # NaN

\* The limits have just been computed: the function is about to draw with
\* them (they are not assigned again until the function ends).
WindowComputed ==
  /\ HaveWindow
  /\ \/ pc = "static_render" /\ i = 1
     \/ pc = "anim_figure"

\* ---------------------------------------------------------------- C1
\* C1: the window is computed once, from all loaded snapshots, before the
\* first frame; every PNG of create_static_frames and every frame drawn by
\* create_animation carries that same (xmin, xmax, ymin, ymax), whatever the
\* particles of the frame.
C1_SameWindowEveryFrame ==
  /\ \A j \in DOMAIN frames :
       /\ frames[j].xlim = frames[1].xlim
       /\ frames[j].ylim = frames[1].ylim
       /\ frames[j].xlim = xlim
       /\ frames[j].ylim = ylim
  /\ \A j \in DOMAIN movie :
       /\ movie[j].xlim = movie[1].xlim
       /\ movie[j].ylim = movie[1].ylim
       /\ movie[j].xlim = xlim
       /\ movie[j].ylim = ylim
  /\ (pc = "static_render" /\ i = Len(files) + 1 /\ i > 1) =>
       /\ xlim = bounds(load_all(files)).xlim
       /\ ylim = bounds(load_all(files)).ylim

\* Two PNGs and two animation frames with different particles were made.
C1_Witness ==
  /\ Len(frames) = 2
  /\ Len(movie) = 2
  /\ frames[1].old # frames[2].old
  /\ movie[1].new # movie[2].new

\* ---------------------------------------------------------------- C2
\* C2: for a non-empty pool, each percentile-scaled axis is
\* [lo - 0.1*(hi-lo), hi + 0.1*(hi-lo)] with lo, hi the 1st and 99th
\* percentile of that coordinate over all three particle classes of all
\* snapshots: X and Y face-on, X edge-on.
C2_PaddedPercentileAxes ==
  (mode \in {"face_on", "edge_on"} /\ WindowComputed) =>
    /\ SameLimits(xlim, RefPadded1000(Column(AllPoints(files), 1)))
    /\ mode = "face_on" => SameLimits(ylim, RefPadded1000(Column(AllPoints(files), 2)))

\* Face-on limits computed from two files that together hold disk, bulge
\* and new stars.
C2_Witness ==
  /\ mode = "face_on"
  /\ HaveWindow
  /\ Len(files) = 2
  /\ files[1].PartType3 # << >>
  /\ files[1].PartType4 = << >>
  /\ files[2].PartType2 = << >>
  /\ files[2].PartType4 # << >>
  /\ xlim[1] < xlim[2]
  /\ ylim[1] < ylim[2]

\* ---------------------------------------------------------------- C3
\* C3: edge-on, with W = xmax - xmin the width of the padded X window, the Z
\* window is exactly [-W/3, W/3]: centred at zero and fixed by the X window
\* alone, whatever the Z coordinates.
C3_EdgeOnThinAxis ==
  (mode = "edge_on" /\ HaveWindow) =>
    /\ ylim[1] = -ylim[2]
    /\ 3 * ylim[2] = xlim[2] - xlim[1]
    /\ WindowComputed =>
         LET x == RefPadded1000(Column(AllPoints(files), 1))
         IN  3 * 1000 * ylim[2] = Den * (x[2] - x[1])
    /\ \A j \in DOMAIN frames :
         frames[j].ylim[1] = -frames[j].ylim[2] /\
         3 * frames[j].ylim[2] = frames[j].xlim[2] - frames[j].xlim[1]

\* An edge-on frame was written for data whose Z percentiles are not
\* symmetric about zero.
C3_Witness ==
  /\ mode = "edge_on"
  /\ HaveWindow
  /\ frames # << >>
  /\ xlim[2] - xlim[1] > 0
  /\ LET z == RefPadded1000(Column(AllPoints(files), 3)) IN z[1] # -z[2]

C7_ContainsPercentilesBothAxes ==
  \A j \in DOMAIN frames :
    /\ ContainsPercentiles(frames[j].xlim, RefAxis(1))
    /\ ContainsPercentiles(frames[j].ylim, RefAxis(2))

\* C7 amended: the window contains the percentile interval on both axes
\* face-on and tilted, and on the horizontal axis edge-on (the edge-on Z
\* window is [-W/3, W/3] and need not contain the Z percentiles).
C7_ContainsPercentilesScaledAxes ==
  WindowComputed =>
    /\ ContainsPercentiles(xlim, RefAxis(1))
    /\ mode # "edge_on" => ContainsPercentiles(ylim, RefAxis(2))

\* A tilted window strictly wider than the percentile interval on both axes.
C7_Witness ==
  /\ mode = "tilted"
  /\ HaveWindow
  /\ frames # << >>
  /\ 100 * xlim[1] < Den * RefPercentile100(RefAxis(1), 1)
  /\ Den * RefPercentile100(RefAxis(2), 99) < 100 * ylim[2]

\* ---------------------------------------------------------------- C5
\* C5: with an empty pooled point set (no snapshot file, or no particle in
\* any snapshot) the run signals an error and aborts before rendering: no
\* frame, no video, and no normal completion.  (Any exception or error exit
\* is accepted here as the signal.)
C5_EmptyDatasetAborts ==
  (pc = "exited" /\ AllPoints(files) = << >>) =>
    /\ exit \in {"raised", "sys_exit_1"}
    /\ frames = << >>
    /\ movie = << >>
    /\ video = "none"

\* ---------------------------------------------------------------- C6
\* C6: if a snapshot file lacks the Time attribute, load_snapshot produces no
\* snapshot for it and the run is lost: every file is loaded before a frame
\* is drawn, so no frame and no video is made, and the program does not
\* complete normally.
C6_MissingTimeIsFatal ==
  (\E k \in DOMAIN files : "Time" \notin files[k].attrs) =>
    /\ frames = << >>
    /\ movie = << >>
    /\ video = "none"
    /\ exit # "returned"
    /\ \A k \in DOMAIN snapshots : "Time" \in files[k].attrs
    /\ pc = "exited" => (raised = "KeyError" /\ exit = "raised")

\* The script ended on the KeyError of the second of two files, the first
\* being loadable.
C6_Witness ==
  /\ entry = "__main__"
  /\ Len(files) = 2
  /\ "Time" \in files[1].attrs
  /\ "Time" \notin files[2].attrs
  /\ pc = "exited"
  /\ raised = "KeyError"

\* ---------------------------------------------------------------- C8
\* C8: rotate_3d rotates every point first about X by angle_x and then about
\* Z by angle_z: the output for p is Rz(angle_z) . (Rx(angle_x) . p); the
\* tilted projection plotted in the frames is its first two components.
RefTilted(pos) ==
  [k \in DOMAIN pos |-> << RefRotate(pos[k], angle_x, angle_z)[1],
                           RefRotate(pos[k], angle_x, angle_z)[2] >>]

C8_RotationOrder ==
  mode = "tilted" =>
    /\ \A p \in Range(DiskPts \o BulgePts \o NewPts) :
         rotate_3d(<< p >>, angle_x, angle_z)[1] = RefRotate(p, angle_x, angle_z)
    /\ \A j \in DOMAIN frames :
         /\ frames[j].old = RefTilted(files[j].PartType2 \o files[j].PartType3)
         /\ frames[j].new = RefTilted(files[j].PartType4)
    /\ \A j \in DOMAIN movie :
         /\ movie[j].old = RefTilted(files[j].PartType2 \o files[j].PartType3)
         /\ movie[j].new = RefTilted(files[j].PartType4)

\* A PNG and an animation frame of disk, bulge and new stars were made with
\* two angles for which the two orders of rotation give different pictures.
C8_Witness ==
  /\ mode = "tilted"
  /\ angle_x = 37
  /\ angle_z = 53
  /\ Len(frames) = 1
  /\ Len(movie) = 1
  /\ frames[1].new # << >>
  /\ Len(frames[1].old) = 3
  /\ \E p \in Range(DiskPts) :
       MatVec(Rx(angle_x), MatVec(Rz(angle_z), p))[1] # RefRotate(p, angle_x, angle_z)[1]

\* ---------------------------------------------------------------- C9
\* C9: the window does not depend on the order of the snapshots: the bounds
\* computation gives the same (xmin, xmax, ymin, ymax) for every permutation
\* of the snapshots, in every view mode.
Perms(n) == {f \in [1..n -> 1..n] : \A a, b \in 1..n : a # b => f[a] # f[b]}

Permuted(f) == [k \in 1..Len(files) |-> load_snapshot(files[f[k]])]

C9_OrderIndependent ==
  WindowComputed =>
    \A f \in Perms(Len(files)) :
      /\ bounds(Permuted(f)).xlim = xlim
      /\ bounds(Permuted(f)).ylim = ylim

\* Limits computed from two snapshots whose pooled lists differ with the
\* order of the snapshots.
C9_Witness ==
  /\ HaveWindow
  /\ Len(files) = 2
  /\ frames # << >>
  /\ pool(Permuted(<< 1, 2 >>), 1) # pool(Permuted(<< 2, 1 >>), 1)
  /\ xlim[1] < xlim[2]

\* --------------------------------------------------------------- C10
\* C10: a snapshot without new stars adds nothing to the pool from its
\* new-star class: the window equals the one found from the disk positions
\* of all files, the bulge positions of all files and the new-star positions
\* of only the files that have new stars; the empty set raises no error and
\* is drawn as no point.  In every view mode.
WithNewStars == {k \in DOMAIN files : Len(files[k].PartType4) > 0}

RECURSIVE ClassPool(_, _, _)
ClassPool(class, among, k) ==
  IF k > Len(files) THEN << >>
  ELSE (IF k \in among THEN files[k][class] ELSE << >>) \o ClassPool(class, among, k + 1)

OmittingEmptyNew(axis) ==
  LET pts == ClassPool("PartType2", DOMAIN files, 1) \o
             ClassPool("PartType3", DOMAIN files, 1) \o
             ClassPool("PartType4", WithNewStars, 1)
  IN  [k \in DOMAIN pts |-> RefProjected(pts[k], axis)]

C10_EmptyNewStarsNeutral ==
  (WithNewStars # DOMAIN files) =>
    /\ WindowComputed =>
         /\ AllPoints(files) # << >>
         /\ SameLimits(xlim, RefPadded1000(OmittingEmptyNew(1)))
         /\ mode # "edge_on" => SameLimits(ylim, RefPadded1000(OmittingEmptyNew(2)))
         /\ mode = "edge_on" => IsThird(ylim, xlim)
    /\ raised = "IndexError" => AllPoints(files) = << >>
    /\ \A j \in DOMAIN frames \ WithNewStars :
         frames[j].new = << >> /\ frames[j].count = 0
    /\ \A j \in DOMAIN movie \ WithNewStars :
         movie[j].new = << >> /\ movie[j].count = << 0 >>

\* Frames were written for a first file without PartType4 and a second file
\* with new stars.
C10_Witness ==
  /\ HaveWindow
  /\ Len(files) = 2
  /\ "PartType4" \notin files[1].groups
  /\ files[1].PartType2 # << >>
  /\ files[2].PartType4 # << >>
  /\ Len(frames) = 2
  /\ Len(movie) = 2

\* --------------------------------------------------------------- C11
\* C11: for a file that has the Time attribute load_snapshot never fails
\* because a particle class is absent: the record has a position set for each
\* of disk, bulge and new stars; an absent class gives the empty 0 x 3 set and
\* a present class exactly the N positions of the file, each of 3 coordinates.
IsNx3(pos) == DOMAIN pos = 1..Len(pos) /\ \A k \in DOMAIN pos : Len(pos[k]) = 3

EncodingReached ==
  \/ pc \in {"anim_save", "anim_gif", "anim_frames"}
  \/ pc = "exited" /\ fig # NoFig

Mp4Failed == "Could not save MP4" \in Range(log)

AllStaticFramesExist ==
  /\ Len(frames) = Len(files)
  /\ \A k \in DOMAIN frames : frames[k] = static_frame(k)

C12_EncoderFailureNotFatal ==
  /\ (entry = "__main__" /\ EncodingReached) => AllStaticFramesExist
  /\ Mp4Failed =>
       /\ pc \in {"anim_gif", "anim_frames", "exited"}
       /\ writer # "ffmpeg"
       /\ video # "mp4"
       /\ pc = "exited" => (video = "gif" \/ raised = "Exception")
  /\ (pc = "exited" /\ fig # NoFig) =>
       /\ video = "none" <=> raised = "Exception"
       /\ video = "none" => Mp4Failed
       /\ video = "mp4" => ~Mp4Failed
       /\ entry = "__main__" => exit = "returned"

\* Both saves failed under __main__, the second one in the middle of the
\* encoding: the script ended normally and both static frames are there.
C12_Witness ==
  /\ entry = "__main__"
  /\ pc = "exited"
  /\ Mp4Failed
  /\ raised = "Exception"
  /\ movie # << >>
  /\ video = "none"
  /\ exit = "returned"
  /\ Len(frames) = 2

\* --------------------------------------------------------------- C13
\* C13: the output has exactly one frame per discovered snapshot file.  For a
\* dataset of n files that all have the Time attribute and hold at least one
\* star, once create_static_frames is over there are exactly n images
\* frame_000 .. frame_(n-1), image k showing the k-th file of the sorted list,
\* and the animation is built with n frames: a saved video has n frames, the
\* k-th showing the k-th file.
ValidDataset ==
  /\ dir_exists
  /\ \A k \in DOMAIN files : "Time" \in files[k].attrs
  /\ AllPoints(files) # << >>

StaticOver == entry = "__main__" /\ pc \notin {"start", "static_load", "static_bounds", "static_render"}

ShowsFile(fr, k) ==
  /\ fr.index = k - 1
  /\ fr.old = project(files[k].PartType2 \o files[k].PartType3)
  /\ fr.new = project(files[k].PartType4)

C13_OneFramePerSnapshot ==
  ValidDataset =>
    /\ StaticOver =>
         /\ Len(frames) = Len(files)
         /\ \A k \in DOMAIN frames : ShowsFile(frames[k], k)
    /\ pc \in {"anim_save", "anim_gif", "anim_frames"} => Len(snapshots) = Len(files)
    /\ video # "none" =>
         /\ Len(movie) = Len(files)
         /\ \A k \in DOMAIN movie : ShowsFile(movie[k], k)

\* --------------------------------------------------------------- C14
\* C14 as stated: for every set of discovered files the rendered sequence is
\* in ascending simulation time, time(frame i) <= time(frame j) for i < j,
\* in the static frames and in the frames of the animation.
Ascending(t) == \A a, b \in DOMAIN t : a < b => t[a] <= t[b]

C14_AscendingTime ==
  /\ Ascending([k \in DOMAIN frames |-> frames[k].time])
  /\ Ascending([k \in DOMAIN movie |-> movie[k].time[1]])

\* C14 amended: the rendered sequence is in the order of the sorted file
\* names: the k-th loaded snapshot, static frame and animation frame carry the
\* time of the k-th file of the list, and the times ascend when the times of
\* the files ascend along the names.  The times are never compared.
FileTimes == [k \in DOMAIN files |-> files[k].Time]

C14_FileNameOrder ==
  /\ \A k \in DOMAIN snapshots : snapshots[k].time = FileTimes[k]
  /\ \A k \in DOMAIN frames : frames[k].index = k - 1 /\ frames[k].time = FileTimes[k]
  /\ \A k \in DOMAIN movie : movie[k].index = k - 1 /\ movie[k].time = << FileTimes[k] >>
  /\ (\A k \in DOMAIN files : "Time" \in files[k].attrs) /\ Ascending(FileTimes) =>
       C14_AscendingTime

\* Two files whose times descend along the names were both written as static
\* frames and as frames of the animation.
C14_Witness ==
  /\ Len(files) = 2
  /\ files[1].Time > files[2].Time
  /\ Len(frames) = 2
  /\ Len(movie) = 2

\* --------------------------------------------------------------- C15
\* The two orders of rotation.  A difference of the two projections is linear
\* in the point, so some point of space shows it exactly when one of the
\* three unit vectors does.
UnitPts == << << 1, 0, 0 >>, << 0, 1, 0 >>, << 0, 0, 1 >> >>

XThenZ(p) == rotate_3d(<< p >>, angle_x, angle_z)[1]

ZThenX(p) == MatVec(Rx(angle_x), MatVec(Rz(angle_z), p))

OrderShows(p) == << XThenZ(p)[1], XThenZ(p)[2] >> # << ZThenX(p)[1], ZThenX(p)[2] >>

\* C15 as stated: for every angle_x # 0 and angle_z # 0 there is a point whose
\* tilted projection under X-rotation-then-Z-rotation differs from its
\* projection under Z-rotation-then-X-rotation.
C15_OrderMattersAllNonzero ==
  (mode = "tilted" /\ angle_x # 0 /\ angle_z # 0) =>
    \E p \in Range(UnitPts) : OrderShows(p)

\* C15 amended: such a point exists for every pair of nonzero angles except
\* the pair of two half turns, for which (as when one angle is zero) the two
\* orders give the same projection of every point.
C15_OrderMattersButHalfTurns ==
  mode = "tilted" =>
    ((\E p \in Range(UnitPts) : OrderShows(p))
       <=> (angle_x # 0 /\ angle_z # 0 /\ ~(angle_x = 180 /\ angle_z = 180)))

\* A frame was drawn with two nonzero angles, and one of its stars is drawn
\* where the other order of rotation would not put it.
C15_Witness ==
  /\ mode = "tilted"
  /\ angle_x = 90
  /\ angle_z = 53
  /\ Len(frames) = 1
  /\ \E k \in DOMAIN files[1].PartType2 :
       /\ frames[1].old[k] = << XThenZ(files[1].PartType2[k])[1], XThenZ(files[1].PartType2[k])[2] >>
       /\ OrderShows(files[1].PartType2[k])

\* --------------------------------------------------------------- C16
\* C16: with angle_x = 0 and angle_z = 0 no rotation is applied: for every
\* point set P the first two columns of rotate_3d(P, 0, 0) are the columns
\* (x, y) of P, the projection AxisDrop(0, 1).  (The rotated coordinates are
\* carried over the denominator TrigDen^2.)
AxisDrop01(pos) ==
  [k \in DOMAIN pos |-> << TrigDen * TrigDen * pos[k][1], TrigDen * TrigDen * pos[k][2] >>]

FirstTwo(pos) == [k \in DOMAIN pos |-> << pos[k][1], pos[k][2] >>]

PointSets ==
  { << >>, UnitPts, DiskPts, BulgePts, NewPts, DiskPts \o BulgePts \o NewPts }

C16_ZeroAnglesIdentity ==
  /\ \A P \in PointSets :
       /\ FirstTwo(rotate_3d(P, 0, 0)) = AxisDrop01(P)
       /\ \A k \in DOMAIN P : rotate_3d(P, 0, 0)[k][3] = TrigDen * TrigDen * P[k][3]
  /\ (mode = "tilted" /\ angle_x = 0 /\ angle_z = 0) =>
       /\ \A j \in DOMAIN frames :
            /\ frames[j].old = AxisDrop01(files[j].PartType2 \o files[j].PartType3)
            /\ frames[j].new = AxisDrop01(files[j].PartType4)
       /\ \A j \in DOMAIN movie :
            /\ movie[j].old = AxisDrop01(files[j].PartType2 \o files[j].PartType3)
            /\ movie[j].new = AxisDrop01(files[j].PartType4)

\* The tilted script drew a file of disk, bulge and new stars with both
\* angles zero, as a PNG and as a frame of the animation.
C16_Witness ==
  /\ mode = "tilted"
  /\ angle_x = 0
  /\ angle_z = 0
  /\ Len(frames) = 1
  /\ Len(movie) = 1
  /\ Len(frames[1].old) = 3
  /\ frames[1].new = AxisDrop01(NewPts)

\* --------------------------------------------------------------- C17
\* C17: the two scatter artists and the two texts are shared by all frames,
\* yet a drawn frame never shows points of another frame.  Whatever init and
\* animate calls came before, in whatever order, the artists are either
\* cleared or all four show one and the same snapshot k (the old stars the
\* projection of its disk and bulge, the new stars the projection of its new
\* stars, empty when it has none, the texts its time and its count); and the
\* frame the writer grabs after animate(k) shows snapshot k.
RefPoints(pos) == [k \in DOMAIN pos |-> << RefProjected(pos[k], 1), RefProjected(pos[k], 2) >>]

ShowsSnapshot(old, new, time, count, k) ==
  /\ old = RefPoints(files[k].PartType2 \o files[k].PartType3)
  /\ new = RefPoints(files[k].PartType4)
  /\ time = << files[k].Time >>
  /\ count = << Len(files[k].PartType4) >>

Cleared(f) ==
  f.old_stars = << >> /\ f.new_stars = << >> /\ f.time_text = << >> /\ f.count_text = << >>

C17_FrameShowsOnlyItsSnapshot ==
  /\ (fig # NoFig) =>
       \/ Cleared(fig)
       \/ \E k \in DOMAIN snapshots :
            ShowsSnapshot(fig.old_stars, fig.new_stars, fig.time_text, fig.count_text, k)
  /\ \A j \in DOMAIN movie :
       ShowsSnapshot(movie[j].old, movie[j].new, movie[j].time, movie[j].count,
                     movie[j].index + 1)

\* The save has drawn its first frame, of a snapshot with new stars, and a
\* step of the repeating animation has then drawn the second snapshot, which
\* has none: the new-star artist is empty and the count text says 0.
C17_Witness ==
  /\ pc = "anim_frames"
  /\ Len(files) = 2
  /\ i = 2
  /\ Len(movie) = 1
  /\ movie[1].new # << >>
  /\ fig.new_stars = << >>
  /\ fig.old_stars # << >>
  /\ fig.old_stars # movie[1].old
  /\ fig.count_text = << 0 >>
  /\ fig.time_text = << files[2].Time >>

====
